---- MODULE Spec2Model ----
(***************************************************************************)
(* GoogleMonicaSync: the Monica API client (MonicaHelper.py, class Monica) *)
(* and the command line entry point (GMSync.py, main).                     *)
(*                                                                         *)
(* The Monica client is a single thread of control.  Every operation is a  *)
(* "while True" loop that sends one request per iteration and decides on   *)
(* the response: success, the rate limiter's "slow down" error, or any     *)
(* other error.  One action starts a call (the code before the loop), one  *)
(* action is one iteration of the loop; the remote's response is the       *)
(* input of the iteration.                                                 *)
(***************************************************************************)
EXTENDS Integers, Sequences, FiniteSets, TLC

\* ---------------------------------------------------------------- bounds
MaxId == 2          \* contact ids are 1..MaxId
MaxCalls == 2       \* client operations called in one session
MaxStatsCalls == 3  \* operations called in a session of mutations and statistics
MaxCacheCalls == 3  \* operations called in a session of the cache operations
MaxPage == 2        \* the largest last_page the remote reports
MaxRequests == 2    \* api_requests is kept in 0..MaxRequests (it wraps around)
MaxLen == 2         \* length of the lists given to the label filter alone

Ids == 1..MaxId
Labels == {"friends", "work"}
Times == {1, 2}
Contact == [id : Ids, tags : SUBSET Labels, updated_at : Times]
LabelFilters == [include : SUBSET Labels, exclude : SUBSET Labels]
\* The configurations a client session is run with: no filter, an include-set,
\* an exclude-set, both
SessionFilters == {lf \in LabelFilters : lf.include \subseteq {"friends"}
                                          /\ lf.exclude \subseteq {"work"}}
TypeNames == {"email", "fax"}   \* contact field types the engine asks for

\* ------------------------------------------------------------- variables
VARIABLES
    \* Monica object (MonicaHelper.py:16-31)
    label_filter, is_data_already_fetched, contacts, gender_mapping,
    contact_field_type_mapping, updated_contacts, created_contacts,
    deleted_contacts, api_requests,
    database,       \* the mapping store: monica_id -> monica_last_changed (0: never written)
    \* the remote Monica instance
    next_id,        \* the id the remote gives to the next created contact
    \* the running call
    call,           \* the operation in progress and its local variables
    result,         \* how the last call ended: returned value or raised exception
    response,       \* the last response the running call received
    db_updates,     \* database.update calls made by the current (or last) call
    last_log,       \* level of the last record the current call wrote to the log
    calls,          \* operations called so far in this session
    call_limit,     \* operations the session calls at most
    \* the label filter on its own
    filter_input, filter_output,
    \* GMSync.main
    args, main_pc, log_lines, objects, started, sync_modifiers, exit_status, pending

monica_vars == <<label_filter, is_data_already_fetched, contacts, gender_mapping,
                 contact_field_type_mapping, updated_contacts, created_contacts,
                 deleted_contacts, api_requests, database, next_id, call, result,
                 response, db_updates, last_log, calls, call_limit>>
filter_vars == <<filter_input, filter_output>>
main_vars == <<args, main_pc, log_lines, objects, started, sync_modifiers,
               exit_status, pending>>
vars == <<monica_vars, filter_vars, main_vars>>

\* --------------------------------------------------------------- helpers
Range(s) == {s[i] : i \in 1..Len(s)}

IdsOf(s) == {s[i].id : i \in 1..Len(s)}

\* The list comprehension [c for c in list if str(c['id']) != str(monica_id)]
WithoutId(list, monica_id) == SelectSeq(list, LAMBDA c : c.id # monica_id)

\* ---------------------------------------------------- label filter (pure)
\* any([label in include for label in tags]): a contact without tags has none
NoExcludeOnly(lf, contact_list) ==
    IF lf.include # {}
    THEN SelectSeq(contact_list, LAMBDA c : \E t \in c.tags : t \in lf.include)
    ELSE IF lf.exclude # {}
    THEN SelectSeq(contact_list, LAMBDA c : \A t \in c.tags : t \notin lf.exclude)
    ELSE contact_list

filter_contacts_by_label(lf, contact_list) ==
    IF lf.include # {}
    THEN SelectSeq(contact_list,
                   LAMBDA c : /\ \E t \in c.tags : t \in lf.include
                              /\ \A t \in c.tags : t \notin lf.exclude)
    ELSE IF lf.exclude # {}
    THEN SelectSeq(contact_list, LAMBDA c : \A t \in c.tags : t \notin lf.exclude)
    ELSE contact_list

\* -------------------------------------------------------- calls, responses
\* Sub-resource mutations: one loop shape each (MonicaHelper.py:256-357, 384-423, 482-523)
SubResourceOps == {"add_note", "update_note", "delete_note", "remove_tags", "add_tags",
                   "delete_address", "create_address", "create_contact_field",
                   "delete_contact_field"}
\* Reads that touch no client state (MonicaHelper.py:238-254, 425-442)
ReadOps == {"get_notes", "get_contact_fields"}

\* The locals of the running call, and two records kept of it: the cache as it
\* was when the call started, and the pages get_contacts has accepted
Idle == [op |-> "idle", monica_id |-> 0, phase |-> "", page |-> 0,
         local_contacts |-> <<>>, type_name |-> "", form_arguments |-> <<>>,
         cache_before |-> <<>>, accepted |-> <<>>]
NewCall(op, monica_id) ==
    [Idle EXCEPT !.op = op, !.monica_id = monica_id, !.phase = "loop",
                 !.cache_before = contacts]

\* The operations that hand a value to their caller
ValueOps == {"get_gender_mapping", "create_contact", "get_contacts", "get_contact",
             "get_notes", "get_contact_fields", "get_contact_field_id",
             "MonicaContactUploadForm"}
\* of: the operation a returned value, or the exception of an operation that
\* returns values, comes from
NoResult == [kind |-> "none", exc |-> "", value |-> <<>>, of |-> ""]
NoResponse == [kind |-> "none", message |-> "", data |-> <<>>, last_page |-> 0]

\* response.json()['error']['message'] of the rate limiter and of any other refusal
SlowDownMessage == "Too many attempts, please slow down the request"
OtherMessage == "The resource has not been found"

OkResponse(data, last_page) ==
    [kind |-> "ok", message |-> "", data |-> data, last_page |-> last_page]
ErrorResponse(message) ==
    [kind |-> "error", message |-> message, data |-> <<>>, last_page |-> 0]
ErrorResponses == {ErrorResponse(SlowDownMessage), ErrorResponse(OtherMessage)}

\* What the remote can answer to a request about contact monica_id
ContactResponses(monica_id) ==
    {OkResponse(<<c>>, 0) : c \in {k \in Contact : k.id = monica_id /\ monica_id < next_id}}
        \cup ErrorResponses
\* ... to the creation of a contact: the new contact carries a fresh id
CreateResponses ==
    {OkResponse(<<c>>, 0) : c \in {k \in Contact : k.id = next_id}} \cup ErrorResponses
\* ... to a request with no contact in the answer the client keeps
PlainResponses == {OkResponse(<<>>, 0)} \cup ErrorResponses
\* ... to a page of the contact list: contacts not listed on an earlier page,
\* and a last_page that is not before the page served
PageResponses(page, listed) ==
    {OkResponse(d, lp) :
        d \in {<<>>} \cup {<<c>> : c \in {k \in Contact : k.id < next_id /\ k.id \notin listed}},
        lp \in page..MaxPage}
        \cup ErrorResponses
\* ... to /genders and /contactfieldtypes: a list of {type, id}, possibly empty
GenderList == <<[type |-> "M", id |-> 1], [type |-> "F", id |-> 2], [type |-> "O", id |-> 3]>>
FieldTypeList == <<[type |-> "email", id |-> 1], [type |-> "phone", id |-> 2]>>
MappingResponses(list) == {OkResponse(<<>>, 0), OkResponse(list, 0)} \cup ErrorResponses

\* {x['type']: x['id'] for x in data}: the dictionary as its list of items
\* (the types of a response are distinct)
DictOf(list) == list
\* dict.get(type_name, None), 0 standing for None
DictGet(dict, type_name) ==
    IF \E i \in 1..Len(dict) : dict[i].type = type_name
    THEN (CHOOSE e \in Range(dict) : e.type = type_name).id
    ELSE 0

\* __is_slow_down_error gone wrong: every error taken for a rate limit, or none
AnyErrorIsSlowDown(r) == r.kind = "error"

NoErrorIsSlowDown(r) == FALSE

\* __is_slow_down_error (MonicaHelper.py:525-533): on the rate limiter's message
\* it sleeps Retry-After seconds, which changes no state of the client, and
\* answers True (the rate limiter's answers carry a Retry-After header)

is_slow_down_error(r) == r.message = SlowDownMessage

\* requests.<method>(...); self.api_requests += 1
\* The counter has no upper limit in the program; it is kept modulo
\* MaxRequests + 1, so that a loop that sends requests for ever is a cycle.
Request(r) ==
    /\ response' = r
    /\ api_requests' = (api_requests + 1) % (MaxRequests + 1)

ReturnFrom(op, v) ==
    /\ call' = Idle
    /\ result' = [kind |-> "return", exc |-> "", value |-> v,
                  of |-> IF op \in ValueOps THEN op ELSE ""]

RaiseFrom(op, exc) ==
    /\ call' = Idle
    /\ result' = [kind |-> "raise", exc |-> exc, value |-> <<>>,
                  of |-> IF op \in ValueOps THEN op ELSE ""]

\* return and raise inside the loop of the running call
Return(v) == ReturnFrom(call.op, v)

Raise(exc) == RaiseFrom(call.op, exc)

\* "continue": the loop starts over with the locals as they are
Continue == UNCHANGED <<call, result, last_log>>

\* A call starts: nothing of the previous call is left
Begin ==
    /\ call.op = "idle"
    /\ calls < call_limit
    /\ calls' = calls + 1
    /\ response' = NoResponse
    /\ db_updates' = 0

lookup_vars == <<gender_mapping, contact_field_type_mapping>>
stats_vars == <<updated_contacts, created_contacts, deleted_contacts>>
cache_vars == <<contacts, is_data_already_fetched>>
store_vars == <<database, db_updates>>
outside_monica == <<label_filter, call_limit, filter_vars, main_vars>>

\* The operation is called and enters its loop without touching the client
Enter(op, monica_id) ==
    /\ Begin
    /\ call' = NewCall(op, monica_id)
    /\ result' = NoResult
    /\ last_log' = "none"
    /\ UNCHANGED <<lookup_vars, stats_vars, cache_vars, database, api_requests, next_id,
                   outside_monica>>

\* ------------------------------------------------------ Monica operations

\* update_statistics as it would be without the comprehension of
\* MonicaHelper.py:54-55
UpdateStatisticsKeepingAll ==
    /\ Begin
    /\ call' = Idle
    /\ result' = [NoResult EXCEPT !.kind = "return"]
    /\ last_log' = "none"
    /\ UNCHANGED <<lookup_vars, cache_vars, stats_vars, database, api_requests, next_id,
                   outside_monica>>

\* update_statistics (MonicaHelper.py:51-55): no request, no loop
update_statistics ==
    /\ Begin
    /\ updated_contacts' = updated_contacts \ created_contacts
    /\ call' = Idle
    /\ result' = [NoResult EXCEPT !.kind = "return"]
    /\ last_log' = "none"
    /\ UNCHANGED <<lookup_vars, cache_vars, created_contacts, deleted_contacts, database,
                   api_requests, next_id, outside_monica>>

\* get_gender_mapping (MonicaHelper.py:57-80)
call_get_gender_mapping ==
    /\ Begin
    /\ last_log' = "none"
    /\ IF gender_mapping # <<>>
       THEN ReturnFrom("get_gender_mapping", gender_mapping)
       ELSE call' = NewCall("get_gender_mapping", 0) /\ result' = NoResult
    /\ UNCHANGED <<lookup_vars, stats_vars, cache_vars, database, api_requests, next_id,
                   outside_monica>>

get_gender_mapping ==
    /\ call.op = "get_gender_mapping"
    /\ \E r \in MappingResponses(GenderList) :
        /\ Request(r)
        /\ IF r.kind = "ok"
           THEN /\ gender_mapping' = DictOf(r.data)
                /\ Return(DictOf(r.data))
                /\ UNCHANGED last_log
           ELSE /\ UNCHANGED gender_mapping
                /\ IF is_slow_down_error(r)
                   THEN Continue
                   ELSE last_log' = "error" /\ Raise("MonicaFetchError")
    /\ UNCHANGED <<contact_field_type_mapping, stats_vars, cache_vars, store_vars, next_id,
                   calls, outside_monica>>


\* update_contact as it would be without the database.update of
\* MonicaHelper.py:101-102
UpdateContactWithoutStore ==
    /\ call.op = "update_contact"
    /\ \E r \in ContactResponses(call.monica_id) :
        /\ Request(r)
        /\ IF r.kind = "ok"
           THEN /\ updated_contacts' = updated_contacts \cup {call.monica_id}
                /\ contacts' = Append(contacts, r.data[1])
                /\ last_log' = "info"
                /\ UNCHANGED store_vars
                /\ Return(<<>>)
           ELSE /\ UNCHANGED <<updated_contacts, contacts, store_vars>>
                /\ IF is_slow_down_error(r)
                   THEN Continue
                   ELSE last_log' = "error" /\ Raise("MonicaFetchError")
    /\ UNCHANGED <<lookup_vars, created_contacts, deleted_contacts, is_data_already_fetched,
                   next_id, calls, outside_monica>>


\* update_contact as it would start without the removal of the contact from
\* the cache (MonicaHelper.py:87)
CallUpdateContactKeepingEntry ==
    \E monica_id \in Ids :
        /\ Begin
        /\ call' = NewCall("update_contact", monica_id)
        /\ result' = NoResult
        /\ last_log' = "none"
        /\ UNCHANGED <<lookup_vars, stats_vars, cache_vars, database, api_requests, next_id,
                       outside_monica>>

\* update_contact (MonicaHelper.py:82-110)
call_update_contact ==
    \E monica_id \in Ids :
        /\ Begin
        /\ contacts' = WithoutId(contacts, monica_id)
        /\ call' = NewCall("update_contact", monica_id)
        /\ result' = NoResult
        /\ last_log' = "none"
        /\ UNCHANGED <<lookup_vars, stats_vars, is_data_already_fetched, database,
                       api_requests, next_id, outside_monica>>

update_contact ==
    /\ call.op = "update_contact"
    /\ \E r \in ContactResponses(call.monica_id) :
        /\ Request(r)
        /\ IF r.kind = "ok"
           THEN /\ updated_contacts' = updated_contacts \cup {call.monica_id}
                /\ contacts' = Append(contacts, r.data[1])
                /\ last_log' = "info"
                /\ database' = [database EXCEPT ![call.monica_id] = r.data[1].updated_at]
                /\ db_updates' = db_updates + 1
                /\ Return(<<>>)
           ELSE /\ UNCHANGED <<updated_contacts, contacts, store_vars>>
                /\ IF is_slow_down_error(r)
                   THEN Continue
                   ELSE last_log' = "error" /\ Raise("MonicaFetchError")
    /\ UNCHANGED <<lookup_vars, created_contacts, deleted_contacts, is_data_already_fetched,
                   next_id, calls, outside_monica>>


\* delete_contact as it would be if deleted_contacts were set before the status
\* of the response is looked at (MonicaHelper.py:122-125)
DeleteContactCountingAttempts ==
    /\ call.op = "delete_contact"
    /\ \E r \in PlainResponses :
        /\ Request(r)
        /\ deleted_contacts' = deleted_contacts \cup {call.monica_id}
        /\ IF r.kind = "ok"
           THEN /\ contacts' = WithoutId(contacts, call.monica_id)
                /\ Return(<<>>)
                /\ UNCHANGED last_log
           ELSE /\ UNCHANGED contacts
                /\ IF is_slow_down_error(r)
                   THEN Continue
                   ELSE last_log' = "error" /\ Raise("MonicaFetchError")
    /\ UNCHANGED <<lookup_vars, created_contacts, updated_contacts, is_data_already_fetched,
                   store_vars, next_id, calls, outside_monica>>

\* delete_contact as it would be without the removal from the cache of
\* MonicaHelper.py:123
DeleteContactKeepingCache ==
    /\ call.op = "delete_contact"
    /\ \E r \in PlainResponses :
        /\ Request(r)
        /\ IF r.kind = "ok"
           THEN /\ deleted_contacts' = deleted_contacts \cup {call.monica_id}
                /\ Return(<<>>)
                /\ UNCHANGED <<contacts, last_log>>
           ELSE /\ UNCHANGED <<contacts, deleted_contacts>>
                /\ IF is_slow_down_error(r)
                   THEN Continue
                   ELSE last_log' = "error" /\ Raise("MonicaFetchError")
    /\ UNCHANGED <<lookup_vars, created_contacts, updated_contacts, is_data_already_fetched,
                   store_vars, next_id, calls, outside_monica>>

\* delete_contact (MonicaHelper.py:112-131)
call_delete_contact == \E monica_id \in Ids : Enter("delete_contact", monica_id)

delete_contact ==
    /\ call.op = "delete_contact"
    /\ \E r \in PlainResponses :
        /\ Request(r)
        /\ IF r.kind = "ok"
           THEN /\ contacts' = WithoutId(contacts, call.monica_id)
                /\ deleted_contacts' = deleted_contacts \cup {call.monica_id}
                /\ Return(<<>>)
                /\ UNCHANGED last_log
           ELSE /\ UNCHANGED <<contacts, deleted_contacts>>
                /\ IF is_slow_down_error(r)
                   THEN Continue
                   ELSE last_log' = "error" /\ Raise("MonicaFetchError")
    /\ UNCHANGED <<lookup_vars, created_contacts, updated_contacts, is_data_already_fetched,
                   store_vars, next_id, calls, outside_monica>>

\* create_contact (MonicaHelper.py:133-153)
call_create_contact == Enter("create_contact", 0)

create_contact ==
    /\ call.op = "create_contact"
    /\ \E r \in CreateResponses :
        /\ Request(r)
        /\ IF r.kind = "ok"
           THEN /\ created_contacts' = created_contacts \cup {r.data[1].id}
                /\ contacts' = Append(contacts, r.data[1])
                /\ next_id' = next_id + 1
                /\ last_log' = "info"
                /\ Return(r.data)
           ELSE /\ UNCHANGED <<created_contacts, contacts, next_id>>
                /\ IF is_slow_down_error(r)
                   THEN Continue
                   ELSE last_log' = "info" /\ Raise("MonicaFetchError")
    /\ UNCHANGED <<lookup_vars, updated_contacts, deleted_contacts, is_data_already_fetched,
                   store_vars, calls, outside_monica>>


\* get_contacts as it would start without the test of is_data_already_fetched
\* (MonicaHelper.py:159-160)
CallGetContactsAlwaysFetching ==
    /\ Begin
    /\ call' = [NewCall("get_contacts", 0) EXCEPT !.page = 1]
    /\ result' = NoResult
    /\ last_log' = "info"
    /\ UNCHANGED <<lookup_vars, stats_vars, cache_vars, database, api_requests, next_id,
                   outside_monica>>


\* get_contacts as it would be if the pages were added to self.contacts as they
\* arrive, and not to the local list of MonicaHelper.py:165, 176
GetContactsFillingCache ==
    /\ call.op = "get_contacts"
    /\ \E r \in PageResponses(call.page, IdsOf(call.local_contacts)) :
        /\ Request(r)
        /\ IF r.kind = "ok"
           THEN IF call.page = r.last_page
                THEN /\ contacts' = filter_contacts_by_label(label_filter,
                                                             call.local_contacts \o r.data)
                     /\ is_data_already_fetched' = TRUE
                     /\ last_log' = "info"
                     /\ Return(contacts')
                ELSE /\ call' = [call EXCEPT !.local_contacts = @ \o r.data,
                                             !.page = @ + 1,
                                             !.accepted = Append(@, [page |-> call.page,
                                                                     last_page |-> r.last_page,
                                                                     data |-> r.data])]
                     /\ contacts' = contacts \o r.data
                     /\ UNCHANGED <<is_data_already_fetched, result, last_log>>
           ELSE /\ UNCHANGED cache_vars
                /\ IF is_slow_down_error(r)
                   THEN Continue
                   ELSE last_log' = "error" /\ Raise("MonicaFetchError")
    /\ UNCHANGED <<lookup_vars, stats_vars, store_vars, next_id, calls, outside_monica>>

\* get_contacts as it would be if a page replaced the local list
\* (MonicaHelper.py:176 with = for +=)
GetContactsKeepingLastPage ==
    /\ call.op = "get_contacts"
    /\ \E r \in PageResponses(call.page, IdsOf(call.local_contacts)) :
        /\ Request(r)
        /\ IF r.kind = "ok"
           THEN IF call.page = r.last_page
                THEN /\ contacts' = filter_contacts_by_label(label_filter, r.data)
                     /\ is_data_already_fetched' = TRUE
                     /\ last_log' = "info"
                     /\ Return(contacts')
                ELSE /\ call' = [call EXCEPT !.local_contacts = r.data,
                                             !.page = @ + 1,
                                             !.accepted = Append(@, [page |-> call.page,
                                                                     last_page |-> r.last_page,
                                                                     data |-> r.data])]
                     /\ UNCHANGED <<cache_vars, result, last_log>>
           ELSE /\ UNCHANGED cache_vars
                /\ IF is_slow_down_error(r)
                   THEN Continue
                   ELSE last_log' = "error" /\ Raise("MonicaFetchError")
    /\ UNCHANGED <<lookup_vars, stats_vars, store_vars, next_id, calls, outside_monica>>

\* get_contacts (MonicaHelper.py:155-199)
call_get_contacts ==
    /\ Begin
    /\ IF is_data_already_fetched
       THEN ReturnFrom("get_contacts", contacts) /\ last_log' = "none"
       ELSE /\ call' = [NewCall("get_contacts", 0) EXCEPT !.page = 1]
            /\ result' = NoResult
            /\ last_log' = "info"
    /\ UNCHANGED <<lookup_vars, stats_vars, cache_vars, database, api_requests, next_id,
                   outside_monica>>

get_contacts ==
    /\ call.op = "get_contacts"
    /\ \E r \in PageResponses(call.page, IdsOf(call.local_contacts)) :
        /\ Request(r)
        /\ IF r.kind = "ok"
           THEN IF call.page = r.last_page
                THEN /\ contacts' = filter_contacts_by_label(label_filter,
                                                             call.local_contacts \o r.data)
                     /\ is_data_already_fetched' = TRUE
                     /\ last_log' = "info"
                     /\ Return(contacts')
                ELSE /\ call' = [call EXCEPT !.local_contacts = @ \o r.data,
                                             !.page = @ + 1,
                                             !.accepted = Append(@, [page |-> call.page,
                                                                     last_page |-> r.last_page,
                                                                     data |-> r.data])]
                     /\ UNCHANGED <<cache_vars, result, last_log>>
           ELSE /\ UNCHANGED cache_vars
                /\ IF is_slow_down_error(r)
                   THEN Continue
                   ELSE last_log' = "error" /\ Raise("MonicaFetchError")
    /\ UNCHANGED <<lookup_vars, stats_vars, store_vars, next_id, calls, outside_monica>>


\* get_contact as it would start without the look into the cache
\* (MonicaHelper.py:205-208)
CallGetContactAlwaysFetching ==
    \E monica_id \in Ids :
        /\ Begin
        /\ last_log' = "none"
        /\ call' = NewCall("get_contact", monica_id)
        /\ result' = NoResult
        /\ UNCHANGED <<lookup_vars, stats_vars, cache_vars, database, api_requests, next_id,
                       outside_monica>>

\* get_contact (MonicaHelper.py:201-236), also as the first statement of
\* update_career (MonicaHelper.py:363)
Cached(monica_id) == contacts # <<>> /\ monica_id \in IdsOf(contacts)
FirstWithId(list, monica_id) == SelectSeq(list, LAMBDA c : c.id = monica_id)[1]

call_get_contact ==
    \E monica_id \in Ids :
        /\ Begin
        /\ last_log' = "none"
        /\ IF Cached(monica_id)
           THEN ReturnFrom("get_contact", <<FirstWithId(contacts, monica_id)>>)
           ELSE call' = NewCall("get_contact", monica_id) /\ result' = NoResult
        /\ UNCHANGED <<lookup_vars, stats_vars, cache_vars, database, api_requests, next_id,
                       outside_monica>>

ReturnContact(v) == Return(v) /\ UNCHANGED last_log

\* update_career goes on with its own loop (MonicaHelper.py:364-366)
EnterCareerLoop ==
    /\ call' = [call EXCEPT !.phase = "loop"]
    /\ UNCHANGED <<result, last_log>>


\* get_contact as it would be if the filter's empty answer were handled by the
\* general except clause (MonicaHelper.py:233-236) and the contact cached first
GetContactLoopCatchAll(inside_update_career) ==
    \E r \in ContactResponses(call.monica_id) :
        /\ Request(r)
        /\ IF r.kind = "ok"
           THEN /\ contacts' = Append(contacts, r.data[1])
                /\ IF filter_contacts_by_label(label_filter, r.data) = <<>>
                   THEN last_log' = "error" /\ Raise("MonicaFetchError")
                   ELSE IF inside_update_career
                        THEN EnterCareerLoop
                        ELSE ReturnContact(r.data)
           ELSE /\ UNCHANGED contacts
                /\ IF is_slow_down_error(r)
                   THEN Continue
                   ELSE last_log' = "error" /\ Raise("MonicaFetchError")

\* One iteration of get_contact's loop, called by itself or inside update_career
GetContactLoop(inside_update_career) ==
    \E r \in ContactResponses(call.monica_id) :
        /\ Request(r)
        /\ IF r.kind = "ok"
           THEN IF filter_contacts_by_label(label_filter, r.data) = <<>>
                THEN \* IndexError
                     /\ last_log' = "info"
                     /\ Raise("InternalError")
                     /\ UNCHANGED contacts
                ELSE /\ contacts' = Append(contacts, r.data[1])
                     /\ IF inside_update_career
                        THEN EnterCareerLoop
                        ELSE ReturnContact(r.data)
           ELSE /\ UNCHANGED contacts
                /\ IF is_slow_down_error(r)
                   THEN Continue
                   ELSE last_log' = "error" /\ Raise("MonicaFetchError")

get_contact ==
    /\ call.op = "get_contact"
    /\ GetContactLoop(FALSE)
    /\ UNCHANGED <<lookup_vars, stats_vars, is_data_already_fetched, store_vars, next_id,
                   calls, outside_monica>>

\* update_career (MonicaHelper.py:360-382)
call_update_career ==
    \E monica_id \in Ids :
        /\ Begin
        /\ last_log' = "none"
        /\ result' = NoResult
        /\ call' = [NewCall("update_career", monica_id)
                        EXCEPT !.phase = IF Cached(monica_id) THEN "loop" ELSE "get_contact"]
        /\ UNCHANGED <<lookup_vars, stats_vars, cache_vars, database, api_requests, next_id,
                       outside_monica>>

update_career_get_contact ==
    /\ call.op = "update_career"
    /\ call.phase = "get_contact"
    /\ GetContactLoop(TRUE)
    /\ UNCHANGED <<lookup_vars, stats_vars, is_data_already_fetched, store_vars, next_id,
                   calls, outside_monica>>

\* What update_career does with an error that is no rate limit: a warning in
\* the log, and the loop goes round again (MonicaHelper.py:382)
CareerError == last_log' = "warning" /\ UNCHANGED <<call, result>>

update_career ==
    /\ call.op = "update_career"
    /\ call.phase = "loop"
    /\ \E r \in ContactResponses(call.monica_id) :
        /\ Request(r)
        /\ IF r.kind = "ok"
           THEN /\ updated_contacts' = updated_contacts \cup {call.monica_id}
                /\ last_log' = "info"
                /\ database' = [database EXCEPT ![call.monica_id] = r.data[1].updated_at]
                /\ db_updates' = db_updates + 1
                /\ Return(<<>>)
           ELSE /\ UNCHANGED <<updated_contacts, store_vars>>
                /\ IF is_slow_down_error(r)
                   THEN Continue
                   ELSE CareerError
    /\ UNCHANGED <<lookup_vars, created_contacts, deleted_contacts, cache_vars, next_id,
                   calls, outside_monica>>

\* The mutations of a contact's notes, tags, addresses and contact fields:
\* on success the contact is marked updated, and no more
SubResourceSuccess ==
    /\ updated_contacts' = updated_contacts \cup {call.monica_id}
    /\ UNCHANGED store_vars

SubResourceLoop(op) ==
    /\ call.op = op
    /\ \E r \in PlainResponses :
        /\ Request(r)
        /\ IF r.kind = "ok"
           THEN /\ SubResourceSuccess
                /\ last_log' = "info"
                /\ Return(<<>>)
           ELSE /\ UNCHANGED <<updated_contacts, store_vars>>
                /\ IF is_slow_down_error(r)
                   THEN Continue
                   ELSE Raise("MonicaFetchError") /\ UNCHANGED last_log
    /\ UNCHANGED <<lookup_vars, created_contacts, deleted_contacts, cache_vars, next_id,
                   calls, outside_monica>>

\* MonicaHelper.py:256-277, 279-300, 302-319
call_add_note == \E monica_id \in Ids : Enter("add_note", monica_id)
add_note == SubResourceLoop("add_note")
call_update_note == \E monica_id \in Ids : Enter("update_note", monica_id)
update_note == SubResourceLoop("update_note")
call_delete_note == \E monica_id \in Ids : Enter("delete_note", monica_id)
delete_note == SubResourceLoop("delete_note")
\* MonicaHelper.py:321-338, 340-357
call_remove_tags == \E monica_id \in Ids : Enter("remove_tags", monica_id)
remove_tags == SubResourceLoop("remove_tags")
call_add_tags == \E monica_id \in Ids : Enter("add_tags", monica_id)
add_tags == SubResourceLoop("add_tags")
\* MonicaHelper.py:384-400, 402-423
call_delete_address == \E monica_id \in Ids : Enter("delete_address", monica_id)
delete_address == SubResourceLoop("delete_address")
call_create_address == \E monica_id \in Ids : Enter("create_address", monica_id)
create_address == SubResourceLoop("create_address")
\* MonicaHelper.py:482-503, 505-523
call_create_contact_field == \E monica_id \in Ids : Enter("create_contact_field", monica_id)
create_contact_field == SubResourceLoop("create_contact_field")
call_delete_contact_field == \E monica_id \in Ids : Enter("delete_contact_field", monica_id)
delete_contact_field == SubResourceLoop("delete_contact_field")

\* get_notes, get_contact_fields (MonicaHelper.py:238-254, 425-442): the list
\* in the answer is returned and nothing is kept
ReadLoop(op) ==
    /\ call.op = op
    /\ \E r \in PlainResponses :
        /\ Request(r)
        /\ IF r.kind = "ok"
           THEN Return(r.data) /\ UNCHANGED last_log
           ELSE IF is_slow_down_error(r)
                THEN Continue
                ELSE Raise("MonicaFetchError") /\ UNCHANGED last_log
    /\ UNCHANGED <<lookup_vars, stats_vars, cache_vars, store_vars, next_id, calls,
                   outside_monica>>

call_get_notes == \E monica_id \in Ids : Enter("get_notes", monica_id)
get_notes == ReadLoop("get_notes")
call_get_contact_fields == \E monica_id \in Ids : Enter("get_contact_fields", monica_id)
get_contact_fields == ReadLoop("get_contact_fields")

\* get_contact_field_id (MonicaHelper.py:444-457) and
\* __get_contact_field_types (MonicaHelper.py:459-479)
FieldIdLookup(dict, type_name) ==
    IF DictGet(dict, type_name) = 0
    THEN RaiseFrom("get_contact_field_id", "InternalError")
    ELSE ReturnFrom("get_contact_field_id",
                    <<[type |-> type_name, id |-> DictGet(dict, type_name)]>>)

call_get_contact_field_id ==
    \E type_name \in TypeNames :
        /\ Begin
        /\ last_log' = "none"
        /\ IF contact_field_type_mapping = <<>>
           THEN /\ call' = [NewCall("get_contact_field_id", 0) EXCEPT !.type_name = type_name]
                /\ result' = NoResult
           ELSE FieldIdLookup(contact_field_type_mapping, type_name)
        /\ UNCHANGED <<lookup_vars, stats_vars, cache_vars, database, api_requests, next_id,
                       outside_monica>>

get_contact_field_types ==
    /\ call.op = "get_contact_field_id"
    /\ \E r \in MappingResponses(FieldTypeList) :
        /\ Request(r)
        /\ IF r.kind = "ok"
           THEN /\ contact_field_type_mapping' = DictOf(r.data)
                /\ FieldIdLookup(DictOf(r.data), call.type_name)
                /\ UNCHANGED last_log
           ELSE /\ UNCHANGED contact_field_type_mapping
                /\ IF is_slow_down_error(r)
                   THEN Continue
                   ELSE last_log' = "error" /\ Raise("MonicaFetchError")
    /\ UNCHANGED <<gender_mapping, stats_vars, cache_vars, store_vars, next_id, calls,
                   outside_monica>>


\* ------------------------------------- MonicaContactUploadForm.__init__
\* (MonicaHelper.py:538-566). None is written "None"
GenderTypes == {"M", "F", "O"}

\* the arguments left at their defaults (MonicaHelper.py:538-545)
DefaultArguments(gender_type) ==
    [first_name |-> "Ada", last_name |-> "None", nick_name |-> "None",
     middle_name |-> "None", gender_type |-> gender_type, birthdate_day |-> "None",
     birthdate_month |-> "None", birthdate_year |-> "None",
     is_birthdate_age_based |-> FALSE, is_birthdate_known |-> FALSE,
     is_deceased |-> FALSE, is_deceased_date_known |-> FALSE, deceased_day |-> "None",
     deceased_month |-> "None", deceased_year |-> "None", deceased_age_based |-> "None",
     create_reminders |-> TRUE]

\* every argument given
FullArguments(gender_type) ==
    [first_name |-> "Ada", last_name |-> "Lovelace", nick_name |-> "A",
     middle_name |-> "Augusta", gender_type |-> gender_type, birthdate_day |-> "10",
     birthdate_month |-> "12", birthdate_year |-> "1815",
     is_birthdate_age_based |-> FALSE, is_birthdate_known |-> TRUE,
     is_deceased |-> TRUE, is_deceased_date_known |-> TRUE, deceased_day |-> "27",
     deceased_month |-> "11", deceased_year |-> "1852", deceased_age_based |-> "False",
     create_reminders |-> FALSE]

FormArguments ==
    {DefaultArguments(g) : g \in GenderTypes} \cup {FullArguments(g) : g \in GenderTypes}

\* self.data (MonicaHelper.py:547-566)
form_data(gender_id, a) ==
    [first_name |-> a.first_name,
     last_name |-> a.last_name,
     nickname |-> a.nick_name,
     middle_name |-> a.middle_name,
     gender_id |-> gender_id,
     birthdate_day |-> a.birthdate_day,
     birthdate_month |-> a.birthdate_month,
     birthdate_year |-> a.birthdate_year,
     birthdate_is_age_based |-> a.is_birthdate_age_based,
     deceased_date_add_reminder |-> a.create_reminders,
     birthdate_add_reminder |-> a.create_reminders,
     is_birthdate_known |-> a.is_birthdate_known,
     is_deceased |-> a.is_deceased,
     is_deceased_date_known |-> a.is_deceased_date_known,
     deceased_date_day |-> a.deceased_day,
     deceased_date_month |-> a.deceased_month,
     deceased_date_year |-> a.deceased_year,
     deceased_date_is_age_based |-> a.deceased_age_based]

\* monica.get_gender_mapping()[gender_type] and the dict built from it
\* (MonicaHelper.py:546-566); a type the mapping lacks is a KeyError
BuildForm(dict, a) ==
    IF DictGet(dict, a.gender_type) = 0
    THEN RaiseFrom("MonicaContactUploadForm", "KeyError")
    ELSE ReturnFrom("MonicaContactUploadForm",
                    <<form_data(DictGet(dict, a.gender_type), a)>>)

\* the constructor up to get_gender_mapping's test of its cache
\* (MonicaHelper.py:546, 60-61)
call_MonicaContactUploadForm ==
    \E a \in FormArguments :
        /\ Begin
        /\ last_log' = "none"
        /\ IF gender_mapping # <<>>
           THEN BuildForm(gender_mapping, a)
           ELSE /\ call' = [NewCall("MonicaContactUploadForm", 0)
                               EXCEPT !.form_arguments = <<a>>]
                /\ result' = NoResult
        /\ UNCHANGED <<lookup_vars, stats_vars, cache_vars, database, api_requests, next_id,
                       outside_monica>>

\* one iteration of get_gender_mapping's loop inside the constructor
\* (MonicaHelper.py:63-80), then the rest of the constructor
MonicaContactUploadForm ==
    /\ call.op = "MonicaContactUploadForm"
    /\ \E r \in MappingResponses(GenderList) :
        /\ Request(r)
        /\ IF r.kind = "ok"
           THEN /\ gender_mapping' = DictOf(r.data)
                /\ BuildForm(DictOf(r.data), call.form_arguments[1])
                /\ UNCHANGED last_log
           ELSE /\ UNCHANGED gender_mapping
                /\ IF is_slow_down_error(r)
                   THEN Continue
                   ELSE last_log' = "error" /\ Raise("MonicaFetchError")
    /\ UNCHANGED <<contact_field_type_mapping, stats_vars, cache_vars, store_vars, next_id,
                   calls, outside_monica>>

\* ------------------------------------------------------------ GMSync.main
Flags == {"initial", "syncback", "delta", "full", "check", "update", "env_file"}
Arguments == [Flags -> BOOLEAN]
ObjectOrder == <<"Database", "Google", "Monica", "Sync">>
NoModifiers == [given |-> FALSE, syncback |-> FALSE, check |-> FALSE]

Log(message) == log_lines' = Append(log_lines, message)

\* An exception leaves the try block for the handler (GMSync.py:149)
Throw == main_pc' = "except" /\ pending' = TRUE

\* GMSync.py:68-70, update_environment (GMSync.py:157-201) may raise
ConvertEnvironment ==
    /\ main_pc = "convert"
    /\ IF args["update"]
       THEN \E raises \in BOOLEAN :
                IF raises
                THEN Throw /\ Log("Start updating environment")
                ELSE /\ main_pc' = "load"
                     /\ Log("Finished updating environment")
                     /\ UNCHANGED pending
       ELSE main_pc' = "load" /\ UNCHANGED <<log_lines, pending>>
    /\ UNCHANGED <<args, objects, started, sync_modifiers, exit_status,
                   monica_vars, filter_vars>>

\* GMSync.py:72-96
LoadConfig ==
    /\ main_pc = "load"
    /\ \E default_found \in BOOLEAN, env_file_exists \in BOOLEAN :
        IF ~default_found \/ (args["env_file"] /\ ~env_file_exists)
        THEN Throw /\ UNCHANGED log_lines
        ELSE /\ main_pc' = "parse"
             /\ Log("Config loading complete")
             /\ UNCHANGED pending
    /\ UNCHANGED <<args, objects, started, sync_modifiers, exit_status,
                   monica_vars, filter_vars>>

\* GMSync.py:98-100 with the exception of Config(...) swallowed
ParseConfigIgnoringErrors ==
    /\ main_pc = "parse"
    /\ \E raises \in BOOLEAN :
        /\ main_pc' = "create"
        /\ IF raises THEN UNCHANGED log_lines ELSE Log("Config successfully parsed")
        /\ UNCHANGED pending
    /\ UNCHANGED <<args, objects, started, sync_modifiers, exit_status,
                   monica_vars, filter_vars>>

\* GMSync.py:98-100
ParseConfig ==
    /\ main_pc = "parse"
    /\ \E raises \in BOOLEAN :
        IF raises
        THEN Throw /\ UNCHANGED log_lines
        ELSE /\ main_pc' = "create"
             /\ Log("Config successfully parsed")
             /\ UNCHANGED pending
    /\ UNCHANGED <<args, objects, started, sync_modifiers, exit_status,
                   monica_vars, filter_vars>>

\* GMSync.py:102-110: Database, Google, Monica, Sync, the first n of them
\* before a constructor raises
CreateObjects ==
    /\ main_pc = "create"
    /\ \E n \in 0..Len(ObjectOrder) :
        /\ objects' = SubSeq(ObjectOrder, 1, n)
        /\ IF n = Len(ObjectOrder)
           THEN /\ sync_modifiers' = [given |-> TRUE, syncback |-> args["syncback"],
                                      check |-> args["check"]]
                /\ main_pc' = "start"
                /\ UNCHANGED pending
           ELSE Throw /\ UNCHANGED sync_modifiers
    /\ UNCHANGED <<args, log_lines, started, exit_status,
                   monica_vars, filter_vars>>

\* The if/elif chain of GMSync.py:119-144
ReversedChoice ==
    IF args["check"] THEN "check_database"
    ELSE IF args["syncback"] THEN "syncBack"
    ELSE IF args["full"] THEN "full"
    ELSE IF args["delta"] THEN "delta"
    ELSE IF args["initial"] THEN "initial"
    ELSE IF ~args["update"] THEN "exit"
    ELSE "nothing"

Choice ==
    IF args["initial"] THEN "initial"
    ELSE IF args["delta"] THEN "delta"
    ELSE IF args["full"] THEN "full"
    ELSE IF args["syncback"] THEN "syncBack"
    ELSE IF args["check"] THEN "check_database"
    ELSE IF ~args["update"] THEN "exit"
    ELSE "nothing"

\* GMSync.py:112-144: the chosen entry operation is called, or sys.exit(2)
StartOperation ==
    /\ main_pc = "start"
    /\ CASE Choice = "exit" ->
                /\ main_pc' = "exit"
                /\ exit_status' = 2
                /\ UNCHANGED started
         [] Choice = "nothing" ->
                /\ main_pc' = "end"
                /\ UNCHANGED <<started, exit_status>>
         [] OTHER ->
                /\ started' = Append(started, Choice)
                /\ main_pc' = "running"
                /\ UNCHANGED exit_status
    /\ UNCHANGED <<args, log_lines, objects, sync_modifiers, pending,
                   monica_vars, filter_vars>>

\* sync.start_sync(...) / sync.check_database() returns or raises
OperationFinishes ==
    /\ main_pc = "running"
    /\ \E raises \in BOOLEAN :
        IF raises THEN Throw ELSE main_pc' = "end" /\ UNCHANGED pending
    /\ UNCHANGED <<args, log_lines, objects, started, sync_modifiers, exit_status,
                   monica_vars, filter_vars>>

\* GMSync.py:146-147: main returns, the interpreter exits with status 0
ScriptEnded ==
    /\ main_pc = "end"
    /\ Log("Script ended")
    /\ main_pc' = "exit"
    /\ exit_status' = 0
    /\ UNCHANGED <<args, objects, started, sync_modifiers, pending,
                   monica_vars, filter_vars>>

\* GMSync.py:149-154 without its last line, raise SystemExit(1)
AbortedWithoutStatus ==
    /\ main_pc = "except"
    /\ Log("Script aborted")
    /\ main_pc' = "exit"
    /\ exit_status' = 0
    /\ UNCHANGED <<args, objects, started, sync_modifiers, pending,
                   monica_vars, filter_vars>>

\* GMSync.py:149-154
ScriptAborted ==
    /\ main_pc = "except"
    /\ Log("Script aborted")
    /\ main_pc' = "exit"
    /\ exit_status' = 1
    /\ UNCHANGED <<args, objects, started, sync_modifiers, pending,
                   monica_vars, filter_vars>>

\* ------------------------------------------------------ the label filter
FilterInputs == UNION {[1..n -> Contact] : n \in 0..MaxLen}

ApplyFilter ==
    /\ ~filter_output.done
    /\ filter_output' = [done |-> TRUE,
                         value |-> filter_contacts_by_label(label_filter, filter_input)]
    /\ UNCHANGED <<monica_vars, filter_input, main_vars>>

\* --------------------------------------------------------- specifications
MonicaInit ==
    /\ is_data_already_fetched = FALSE
    /\ contacts = <<>>
    /\ gender_mapping = <<>>
    /\ contact_field_type_mapping = <<>>
    /\ updated_contacts = {}
    /\ created_contacts = {}
    /\ deleted_contacts = {}
    /\ api_requests = 0
    /\ database = [i \in Ids |-> 0]
    /\ call = Idle
    /\ result = NoResult
    /\ response = NoResponse
    /\ db_updates = 0
    /\ last_log = "none"
    /\ calls = 0

FilterUnused == filter_input = <<>> /\ filter_output = [done |-> FALSE, value |-> <<>>]

MainUnused ==
    /\ args = [f \in Flags |-> FALSE]
    /\ main_pc = "unused"
    /\ log_lines = <<>>
    /\ objects = <<>>
    /\ started = <<>>
    /\ sync_modifiers = NoModifiers
    /\ exit_status = -1
    /\ pending = FALSE

\* A session of the Monica client
Init ==
    /\ MonicaInit
    /\ call_limit = MaxCalls
    /\ label_filter \in SessionFilters
    /\ next_id \in 1..(MaxId + 1)
    /\ FilterUnused
    /\ MainUnused

MonicaNext ==
    \/ update_statistics
    \/ call_get_gender_mapping \/ get_gender_mapping
    \/ call_update_contact \/ update_contact
    \/ call_delete_contact \/ delete_contact
    \/ call_create_contact \/ create_contact
    \/ call_get_contacts \/ get_contacts
    \/ call_get_contact \/ get_contact
    \/ call_update_career \/ update_career_get_contact \/ update_career
    \/ call_add_note \/ add_note
    \/ call_update_note \/ update_note
    \/ call_delete_note \/ delete_note
    \/ call_remove_tags \/ remove_tags
    \/ call_add_tags \/ add_tags
    \/ call_delete_address \/ delete_address
    \/ call_create_address \/ create_address
    \/ call_create_contact_field \/ create_contact_field
    \/ call_delete_contact_field \/ delete_contact_field
    \/ call_get_notes \/ get_notes
    \/ call_get_contact_fields \/ get_contact_fields
    \/ call_get_contact_field_id \/ get_contact_field_types

Next == MonicaNext

Spec == Init /\ [][Next]_vars

\* The client thread runs on: a call in progress takes its next step
FairSpec == Spec /\ WF_vars(Next)

\* The label filter applied to a list
FilterInit ==
    /\ MonicaInit
    /\ call_limit = 0
    /\ label_filter \in LabelFilters
    /\ next_id = 1
    /\ filter_input \in FilterInputs
    /\ filter_output = [done |-> FALSE, value |-> <<>>]
    /\ MainUnused

FilterNext == ApplyFilter

SpecFilter == FilterInit /\ [][FilterNext]_vars

\* One run of the script, after the arguments are parsed and logging is set up
\* (GMSync.py:27-66)
MainInit ==
    /\ MonicaInit
    /\ call_limit = 0
    /\ label_filter = [include |-> {}, exclude |-> {}]
    /\ next_id = 1
    /\ FilterUnused
    /\ args \in Arguments
    /\ main_pc = "convert"
    /\ log_lines = <<"Script started">>
    /\ objects = <<>>
    /\ started = <<>>
    /\ sync_modifiers = NoModifiers
    /\ exit_status = -1
    /\ pending = FALSE

MainNext ==
    \/ ConvertEnvironment
    \/ LoadConfig
    \/ ParseConfig
    \/ CreateObjects
    \/ StartOperation
    \/ OperationFinishes
    \/ ScriptEnded
    \/ ScriptAborted

SpecMain == MainInit /\ [][MainNext]_vars


\* The sessions that build upload forms and read the gender mapping
FormNext ==
    \/ call_get_gender_mapping
    \/ get_gender_mapping
    \/ call_MonicaContactUploadForm
    \/ MonicaContactUploadForm

SpecForm == Init /\ [][FormNext]_vars


\* The sessions that create and change contacts and then draw up the
\* statistics, without label filter
StatsInit ==
    /\ MonicaInit
    /\ call_limit = MaxStatsCalls
    /\ label_filter = [include |-> {}, exclude |-> {}]
    /\ next_id = 1
    /\ FilterUnused
    /\ MainUnused

StatsNext ==
    \/ update_statistics
    \/ call_update_contact \/ update_contact
    \/ call_create_contact \/ create_contact
    \/ call_add_note \/ add_note
    \/ call_update_note \/ update_note
    \/ call_delete_note \/ delete_note
    \/ call_remove_tags \/ remove_tags
    \/ call_add_tags \/ add_tags
    \/ call_delete_address \/ delete_address
    \/ call_create_address \/ create_address
    \/ call_create_contact_field \/ create_contact_field
    \/ call_delete_contact_field \/ delete_contact_field

SpecStats == StatsInit /\ [][StatsNext]_vars


\* The sessions of the operations that read and write the cache, against a
\* remote that has one contact and creates the second
CacheInit ==
    /\ MonicaInit
    /\ call_limit = MaxCacheCalls
    /\ label_filter \in SessionFilters
    /\ next_id = MaxId
    /\ FilterUnused
    /\ MainUnused

CacheNext ==
    \/ call_get_contacts \/ get_contacts
    \/ call_get_contact \/ get_contact
    \/ call_create_contact \/ create_contact
    \/ call_update_contact \/ update_contact
    \/ call_delete_contact \/ delete_contact

SpecCache == CacheInit /\ [][CacheNext]_vars

\* ================================================================= claims
\* The label filter as the specification words it
Eligible(lf, c) ==
    /\ lf.include = {} \/ c.tags \cap lf.include # {}
    /\ c.tags \cap lf.exclude = {}

RECURSIVE Kept(_, _)
Kept(lf, list) ==
    IF list = <<>>
    THEN <<>>
    ELSE (IF Eligible(lf, Head(list)) THEN <<Head(list)>> ELSE <<>>) \o Kept(lf, Tail(list))

\* C1: __filter_contacts_by_label returns exactly the contacts that have an
\* included label (or the include-set is empty) and no excluded label, in their
\* original order; with both sets empty the list comes back unchanged.
C1_LabelFiltering ==
    filter_output.done =>
        /\ filter_output.value = Kept(label_filter, filter_input)
        /\ (label_filter.include = {} /\ label_filter.exclude = {})
               => filter_output.value = filter_input

\* C1 witness: a list filtered with both sets in use, one contact kept and one
\* contact dropped although it carries an included label.
C1_Witness ==
    /\ filter_output.done
    /\ label_filter.include # {}
    /\ label_filter.exclude # {}
    /\ Len(filter_output.value) = 1
    /\ \E i \in 1..Len(filter_input) :
           /\ filter_input[i].tags \cap label_filter.include # {}
           /\ filter_input[i].tags \cap label_filter.exclude # {}

\* C2 (as claimed): after any sequence of client operations the session cache
\* holds only contacts that pass the label filter.
C2_CacheOnlyEligible ==
    \A i \in 1..Len(contacts) : Eligible(label_filter, contacts[i])

client_state == <<contacts, is_data_already_fetched, gender_mapping,
                  contact_field_type_mapping, updated_contacts, created_contacts,
                  deleted_contacts, database, db_updates>>

\* C3: a rate-limit response is never raised to the caller and has no effect:
\* the call stays in its loop with the same request to send (same operation,
\* arguments, page and locals) and the cache, the statistics, the lookup tables
\* and the mapping store are as before, so the attempt that succeeds acts on
\* the state the first attempt would have acted on.
C3_RateLimitInvisible ==
    [][(call.op # "idle" /\ response'.message = SlowDownMessage)
          => (call' = call /\ result' = result /\ client_state' = client_state)]_vars

\* C3 witness: create_contact, the first call of the session, returned the
\* created contact with its second request, the first one being rate limited.
C3_Witness ==
    /\ calls = 1
    /\ call.op = "idle"
    /\ api_requests = 2
    /\ result.kind = "return"
    /\ created_contacts # {}
    /\ IdsOf(result.value) = created_contacts

\* C4 (as claimed): every call ends, returning or raising, whatever the remote
\* answers.
C4_EveryCallEnds == (call.op # "idle") ~> (call.op = "idle")

\* C5: in every operation but update_career an error that is no rate limit
\* raises MonicaFetchError at once: the call is over with that response.
C5_RejectionIsTerminal ==
    [][(call.op \notin {"idle", "update_career"} /\ response'.message = OtherMessage)
          => (call'.op = "idle" /\ result'.kind = "raise"
              /\ result'.exc = "MonicaFetchError")]_vars

\* C5 witness: a call ended with MonicaFetchError on the remote's refusal.
C5_Witness ==
    /\ call.op = "idle"
    /\ response.message = OtherMessage
    /\ result.kind = "raise"
    /\ result.exc = "MonicaFetchError"
    /\ calls = 2

\* C6 (as claimed): on an error that is no rate limit update_career logs a
\* warning and returns, without raising, after that one rejected request.
C6_CareerErrorReturns ==
    [][(call.op = "update_career" /\ call.phase = "loop"
        /\ response'.message = OtherMessage)
          => (call'.op = "idle" /\ result'.kind = "return"
              /\ last_log' = "warning")]_vars

\* C7 (as claimed): every successful mutation of an existing contact has written
\* the contact's mapping record when the operation returns.
MutationOps == {"update_contact", "update_career"} \cup SubResourceOps

C7_MutationUpdatesMapping ==
    [][(call.op \in MutationOps /\ response'.kind = "ok" /\ call'.op = "idle"
        /\ result'.kind = "return")
          => db_updates' >= 1]_vars

Logged(message) == \E i \in 1..Len(log_lines) : log_lines[i] = message

\* C8: once an exception was raised main never logs 'Script ended', and it ends
\* logging 'Script aborted' with a status that is not 0; when the selected
\* operation returned without exception main logs 'Script ended' and ends with
\* status 0.
C8_ExitStatus ==
    /\ pending => ~Logged("Script ended")
    /\ (main_pc = "exit" /\ pending)
           => (Logged("Script aborted") /\ exit_status # 0 /\ exit_status # -1)
    /\ (main_pc = "exit" /\ ~pending /\ started # <<>>)
           => (Logged("Script ended") /\ ~Logged("Script aborted") /\ exit_status = 0)

\* C8 witness: the selected sync operation raised and the script has ended.
C8_Witness ==
    /\ main_pc = "exit"
    /\ pending
    /\ started # <<>>
    /\ Logged("Script aborted")

OperationFlags == {"initial", "delta", "full", "syncback", "check"}
NoOperationAsked == \A f \in OperationFlags \cup {"update"} : ~args[f]

\* What C9 says of the dispatch itself
C9_Priority ==
    /\ Len(started) <= 1
    /\ started # <<>> =>
        /\ started[1] = "initial" <=> args["initial"]
        /\ started[1] = "delta" <=> (args["delta"] /\ ~args["initial"])
        /\ started[1] = "full" <=> (args["full"] /\ ~args["initial"] /\ ~args["delta"])
        /\ started[1] = "syncBack" <=>
               (args["syncback"] /\ ~args["initial"] /\ ~args["delta"] /\ ~args["full"])
        /\ started[1] = "check_database" <=>
               (args["check"] /\ \A f \in OperationFlags \ {"check"} : ~args[f])
        /\ sync_modifiers = [given |-> TRUE, syncback |-> args["syncback"],
                             check |-> args["check"]]

\* C9 (as claimed): at most one entry operation, chosen by the priority
\* initial > delta > full > syncBack > check, the two modifiers handed to the
\* Sync object; with no operation flag and no --update nothing is started and
\* the process exits with status 2.
C9_DispatchAsClaimed ==
    /\ C9_Priority
    /\ (main_pc = "exit" /\ NoOperationAsked) => (started = <<>> /\ exit_status = 2)

\* C9 (amended): as claimed, but with no operation flag and no --update the
\* status is 2 only when the configuration was loaded and the objects were
\* built without an exception; after an exception it is 1.
C9_Dispatch ==
    /\ C9_Priority
    /\ (main_pc = "exit" /\ NoOperationAsked) =>
        /\ started = <<>>
        /\ ~pending => exit_status = 2
        /\ pending => exit_status = 1

\* C9 witness: --delta --full --syncback --check started the delta sync, the
\* other two reaching the engine through the Sync object.
C9_Witness ==
    /\ started = <<"delta">>
    /\ args["full"] /\ args["syncback"] /\ args["check"] /\ ~args["initial"]
    /\ sync_modifiers.syncback /\ sync_modifiers.check

\* C10: an entry operation is started, and any of the four objects is built,
\* only after the configuration was loaded and parsed; when loading or parsing
\* raised, no object exists, nothing was started and the exit status is not 0.
C10_ConfigErrorNeverStarts ==
    /\ (started # <<>> \/ objects # <<>> \/ sync_modifiers.given)
           => (Logged("Config loading complete") /\ Logged("Config successfully parsed"))
    /\ (pending /\ ~Logged("Config successfully parsed"))
           => /\ objects = <<>>
              /\ started = <<>>
              /\ ~sync_modifiers.given
              /\ main_pc = "exit" => exit_status \notin {0, -1}

\* C10 witness: the configuration was loaded, parsing it raised, the script is over.
C10_Witness ==
    /\ main_pc = "exit"
    /\ pending
    /\ Logged("Config loading complete")
    /\ ~Logged("Config successfully parsed")
    /\ args["initial"]


\* ---------------------------------------------------------------------------
\* C11: when get_contact fetches a contact that exists remotely but that the
\* label filter excludes, the call ends with InternalError (not
\* MonicaFetchError), the last message logged is at info level, and the cache
\* is left as it was, so the contact is not in it.
C11_FilterExclusionIsNotFailure ==
    [][(/\ call.op = "get_contact"
        /\ response'.kind = "ok"
        /\ ~Eligible(label_filter, response'.data[1]))
          => /\ call'.op = "idle"
             /\ result'.kind = "raise"
             /\ result'.exc = "InternalError"
             /\ result'.exc # "MonicaFetchError"
             /\ last_log' = "info"
             /\ contacts' = contacts
             /\ response'.data[1].id \notin IdsOf(contacts')]_vars

\* C11 witness: get_contact, the session's first call, was answered with a
\* contact that the filter excludes and raised InternalError.
C11_Witness ==
    /\ calls = 1
    /\ result.of = "get_contact"
    /\ result.kind = "raise"
    /\ result.exc = "InternalError"
    /\ response.kind = "ok"
    /\ ~Eligible(label_filter, response.data[1])
    /\ last_log = "info"
    /\ contacts = <<>>


\* ---------------------------------------------------------------------------
\* C12: building the upload form is total and pure: every step of the
\* constructor ends it at once, returning a form whose eighteen native fields
\* are all defined, with no request sent and the client's state as it was.
FormFields ==
    {"first_name", "last_name", "nickname", "middle_name", "gender_id", "birthdate_day",
     "birthdate_month", "birthdate_year", "birthdate_is_age_based",
     "deceased_date_add_reminder", "birthdate_add_reminder", "is_birthdate_known",
     "is_deceased", "is_deceased_date_known", "deceased_date_day", "deceased_date_month",
     "deceased_date_year", "deceased_date_is_age_based"}

C12_FormIsTotalAndPure ==
    [][(\/ call.op = "MonicaContactUploadForm"
        \/ call.op = "idle" /\ call'.op = "MonicaContactUploadForm"
        \/ call.op = "idle" /\ calls' # calls /\ result'.of = "MonicaContactUploadForm")
          => /\ call'.op = "idle"
             /\ result'.kind = "return"
             /\ DOMAIN result'.value[1] = FormFields
             /\ result'.value[1].gender_id \in {g.id : g \in Range(GenderList)}
             /\ response' = NoResponse
             /\ api_requests' = api_requests
             /\ UNCHANGED <<cache_vars, lookup_vars, stats_vars, database>>]_vars


\* ---------------------------------------------------------------------------
\* C13: update_contact and update_career write the mapping store exactly once
\* per successful call: the write is made by the step that receives the success
\* response of the update request, it is the call's first write, it stores that
\* response's updated_at under the contact's id, and the call returns with it;
\* every other step of these calls (a rate-limited or rejected attempt, the
\* fetch of the contact inside update_career, a step that raises) leaves the
\* store as it is.
StoreWriters == {"update_contact", "update_career"}

C13_StoreWrittenOnSuccess ==
    [][(call.op \in StoreWriters)
          => IF call.phase = "loop" /\ response'.kind = "ok"
             THEN /\ call'.op = "idle"
                  /\ result'.kind = "return"
                  /\ db_updates = 0
                  /\ db_updates' = 1
                  /\ database' = [database EXCEPT
                                    ![call.monica_id] = response'.data[1].updated_at]
             ELSE /\ UNCHANGED <<database, db_updates>>
                  /\ result'.kind = "raise" => db_updates' = 0]_vars

\* C13 witness: a call that needed two requests returned after its one write,
\* the store holding the updated_at of the success response.
C13_Witness ==
    /\ calls = 1
    /\ api_requests = 2
    /\ result.kind = "return"
    /\ db_updates = 1
    /\ response.kind = "ok"
    /\ updated_contacts = {response.data[1].id}
    /\ database[response.data[1].id] = response.data[1].updated_at


\* ---------------------------------------------------------------------------
\* C14: when update_contact(id) ends, the cache holds exactly one entry for
\* id: the contact of the success response when it returns, and, when it
\* raises for a contact that was cached when it was called, the entry the
\* cache held then.
EntriesOf(list, monica_id) == SelectSeq(list, LAMBDA c : c.id = monica_id)

C14_UpdateKeepsContactCached ==
    [][(call.op = "update_contact" /\ call'.op = "idle")
          => IF result'.kind = "return"
             THEN EntriesOf(contacts', call.monica_id) = <<response'.data[1]>>
             ELSE call.monica_id \in IdsOf(call.cache_before)
                     => EntriesOf(contacts', call.monica_id)
                            = <<FirstWithId(call.cache_before, call.monica_id)>>]_vars


\* ---------------------------------------------------------------------------
\* C15: an id enters created_contacts, updated_contacts or deleted_contacts
\* only in the step of an operation that receives a success response, and that
\* step returns; hence no step answered with the rate limit or an error, no
\* step that raises and no call that ends by raising marks any id, and a step
\* that only starts an operation marks none either.
MarksAnId ==
    \/ ~(created_contacts' \subseteq created_contacts)
    \/ ~(updated_contacts' \subseteq updated_contacts)
    \/ ~(deleted_contacts' \subseteq deleted_contacts)

C15_StatisticsOnlyOnSuccess ==
    [][/\ MarksAnId => /\ call.op # "idle"
                       /\ response'.kind = "ok"
                       /\ call'.op = "idle"
                       /\ result'.kind = "return"
       /\ (call.op # "idle" /\ (response'.kind = "error" \/ result'.kind = "raise"))
              => UNCHANGED stats_vars]_vars

\* C15 witness: a deletion the remote confirmed is counted, and the call after
\* it, rejected by the remote, raised and counted nothing.
C15_Witness ==
    /\ calls = 2
    /\ deleted_contacts # {}
    /\ created_contacts = {}
    /\ updated_contacts = {}
    /\ result.kind = "raise"
    /\ result.exc = "MonicaFetchError"
    /\ response.message = OtherMessage


\* ---------------------------------------------------------------------------
\* C16: whatever create_contact, update_contact and the sub-resource mutations
\* did before, a step of update_statistics leaves no id in both
\* created_contacts and updated_contacts, keeps in updated_contacts every id
\* that was not created in the session, and leaves created_contacts and
\* deleted_contacts as they were.
\* (update_statistics is the one operation that returns None at once.)
IsUpdateStatistics ==
    /\ call.op = "idle"
    /\ call'.op = "idle"
    /\ calls' = calls + 1
    /\ result'.of = ""

C17_Deletion ==
    [][(call.op = "delete_contact" /\ response'.message # SlowDownMessage)
          => IF response'.kind = "ok"
             THEN /\ call'.op = "idle"
                  /\ result'.kind = "return"
                  /\ call.monica_id \notin IdsOf(contacts')
                  /\ \A i \in 1..Len(contacts) :
                        contacts[i].id # call.monica_id
                            => contacts[i] \in Range(contacts')
                  /\ call.monica_id \in deleted_contacts'
             ELSE /\ call'.op = "idle"
                  /\ result'.kind = "raise"
                  /\ result'.exc = "MonicaFetchError"
                  /\ contacts' = contacts
                  /\ deleted_contacts' = deleted_contacts]_vars

\* C17 witness: the list was fetched, contact 1 was deleted, and the
\* get_contacts after it returned the cache, in which contact 1 is not.
C17_Witness ==
    /\ calls = 3
    /\ is_data_already_fetched
    /\ deleted_contacts = {1}
    /\ result.kind = "return"
    /\ result.of = "get_contacts"
    /\ response = NoResponse
    /\ result.value = contacts
    /\ 1 \notin IdsOf(result.value)


\* ---------------------------------------------------------------------------
\* C18: once a get_contacts has succeeded the session stays fetched; from then
\* on no get_contacts enters its request loop, and a get_contacts called
\* returns at once the cache as it is at that moment (with what create, update
\* and delete have made of it since), sending no request and changing nothing.
C18_ListFetchedOnce ==
    [][is_data_already_fetched
          => /\ is_data_already_fetched'
             /\ call.op # "get_contacts"
             /\ call'.op # "get_contacts"
             /\ (call.op = "idle" /\ calls' # calls /\ result'.of = "get_contacts")
                    => /\ result'.kind = "return"
                       /\ result'.value = contacts
                       /\ response' = NoResponse
                       /\ api_requests' = api_requests
                       /\ UNCHANGED <<cache_vars, lookup_vars, stats_vars, database>>]_vars

\* C18 witness: after the fetch of the list a contact was created, and the
\* get_contacts called then returned, without a request, the cache with the
\* created contact in it.
C18_Witness ==
    /\ calls = 3
    /\ is_data_already_fetched
    /\ created_contacts # {}
    /\ result.kind = "return"
    /\ result.of = "get_contacts"
    /\ response = NoResponse
    /\ result.value = contacts
    /\ created_contacts \subseteq IdsOf(result.value)


\* ---------------------------------------------------------------------------
\* C19: get_contacts is all-or-nothing. A get_contacts that starts its loop
\* starts at page 1 with nothing collected; while it collects pages the cache
\* and the fetched flag stay as they were when it was called; and the step
\* that receives an error other than the rate limit, on whatever page, raises
\* MonicaFetchError with the cache as it was when the call started and the
\* flag still false, so that the next get_contacts starts from page 1 again.
C19_FetchAllOrNothing ==
    [][/\ (call.op = "idle" /\ call'.op = "get_contacts")
              => /\ call'.page = 1
                 /\ call'.local_contacts = <<>>
                 /\ ~is_data_already_fetched
       /\ (call.op = "get_contacts" /\ call'.op = "get_contacts")
              => /\ contacts' = call.cache_before
                 /\ ~is_data_already_fetched'
       /\ (call.op = "get_contacts" /\ response'.message = OtherMessage)
              => /\ call'.op = "idle"
                 /\ result'.kind = "raise"
                 /\ result'.exc = "MonicaFetchError"
                 /\ contacts' = call.cache_before
                 /\ ~is_data_already_fetched']_vars

\* C19 witness: a get_contacts called with a contact in the cache was rejected
\* and raised; the cache still has the contact and the session is not fetched.
C19_Witness ==
    /\ calls = 2
    /\ result.kind = "raise"
    /\ result.of = "get_contacts"
    /\ result.exc = "MonicaFetchError"
    /\ response.message = OtherMessage
    /\ contacts # <<>>
    /\ ~is_data_already_fetched


\* ---------------------------------------------------------------------------
\* C20: get_contacts requests the pages in increasing order from 1, the page
\* requested being the one after the pages accepted so far, each accepted
\* once; a rate-limited page is requested again with the same number; and when
\* the remote has reported the same last_page L on every page, the call goes
\* on to the next page while the page is before L and stops with page L,
\* returning (and caching) the eligible contacts of the pages in page order.
ConsistentLastPage(accepted, L) == \A i \in 1..Len(accepted) : accepted[i].last_page = L

RECURSIVE PagesData(_)
PagesData(accepted) ==
    IF accepted = <<>> THEN <<>> ELSE Head(accepted).data \o PagesData(Tail(accepted))

C20_PaginationOrder ==
    [][call.op = "get_contacts"
          => /\ call.page = Len(call.accepted) + 1
             /\ \A i \in 1..Len(call.accepted) : call.accepted[i].page = i
             /\ response'.message = SlowDownMessage => call' = call
             /\ (response'.kind = "ok"
                    /\ ConsistentLastPage(call.accepted, response'.last_page))
                    => IF call.page = response'.last_page
                       THEN /\ call'.op = "idle"
                            /\ result'.kind = "return"
                            /\ result'.value
                                 = Kept(label_filter,
                                        PagesData(call.accepted) \o response'.data)
                            /\ contacts' = result'.value
                       ELSE /\ call.page < response'.last_page
                            /\ call'.op = "get_contacts"
                            /\ call'.page = call.page + 1
                            /\ Len(call'.accepted) = Len(call.accepted) + 1
                            /\ call'.accepted[call.page].data = response'.data]_vars

\* C20 witness: the session's first call, get_contacts, sent three requests
\* (pages 1 and 2 and one rate-limited attempt), the remote said last_page = 2,
\* and the two contacts of the two pages were returned.
C20_Witness ==
    /\ calls = 1
    /\ api_requests = (MaxPage + 1) % (MaxRequests + 1)
    /\ result.kind = "return"
    /\ result.of = "get_contacts"
    /\ response.kind = "ok"
    /\ response.last_page = 2
    /\ Len(result.value) = 2
    /\ result.value = contacts


\* ---------------------------------------------------------------------------
\* C21: in every state of a session of get_contacts, get_contact,
\* create_contact, update_contact and delete_contact, against a remote that
\* gives each created contact a fresh id and lists each contact once, the
\* cache has no two entries with the same contact id.
C21_NoDuplicateIds ==
    \A i, j \in 1..Len(contacts) : contacts[i].id = contacts[j].id => i = j

\* C21 witness: the cache holds the two contacts, one entry each, the created
\* one put back by an update_contact that the remote confirmed.
C21_Witness ==
    /\ calls = 3
    /\ call.op = "idle"
    /\ Len(contacts) = 2
    /\ created_contacts # {}
    /\ updated_contacts = created_contacts
    /\ db_updates = 1
    /\ result.kind = "return"


\* ---------------------------------------------------------------------------
\* C22: get_contact and the remote traffic. What every step observes:
\*  - get_contact enters its request loop only for an id that has no entry in
\*    the cache; the step that receives the success response for an eligible
\*    contact ends the call, returns that contact and makes it the cache's
\*    entry for the id (one successful fetch);
\*  - a get_contact that returns at once returns the cache's entry for the id,
\*    sends no request and leaves the cache as it is.
GetContactFetchesOnceThenCache ==
    /\ (call.op = "idle" /\ call'.op = "get_contact")
           => call'.monica_id \notin IdsOf(contacts)
    /\ (call.op = "get_contact" /\ response'.kind = "ok"
            /\ Eligible(label_filter, response'.data[1]))
           => /\ call'.op = "idle"
              /\ result'.kind = "return"
              /\ result'.value = response'.data
              /\ EntriesOf(contacts', call.monica_id) = response'.data
    /\ (call.op = "idle" /\ calls' # calls /\ result'.of = "get_contact")
           => /\ result'.kind = "return"
              /\ result'.value = EntriesOf(contacts, result'.value[1].id)
              /\ response' = NoResponse
              /\ api_requests' = api_requests
              /\ contacts' = contacts

\* the step belongs to an update_contact or a delete_contact of monica_id
UpdatesOrDeletes(monica_id) ==
    \/ call'.op = "update_contact" /\ call'.monica_id = monica_id
    \/ call.op \in {"update_contact", "delete_contact"} /\ call.monica_id = monica_id

\* C22 as claimed: every step that is no update or delete of a cached id
\* keeps the cache's entry for it, so that every later get_contact(id) sends no
\* request and returns the same contact.
C22_GetContactIdempotentAsClaimed ==
    [][/\ GetContactFetchesOnceThenCache
       /\ \A monica_id \in Ids :
            (monica_id \in IdsOf(contacts) /\ ~UpdatesOrDeletes(monica_id))
                => EntriesOf(contacts', monica_id) = EntriesOf(contacts, monica_id)]_vars

\* C22 as the code has it: the entry is kept by every step that is no update
\* or delete of the id and no step of a get_contacts that is fetching the list
\* (whose last page replaces the cache by what the remote lists then).
C22_GetContactIdempotent ==
    [][/\ GetContactFetchesOnceThenCache
       /\ \A monica_id \in Ids :
            (/\ monica_id \in IdsOf(contacts)
             /\ ~UpdatesOrDeletes(monica_id)
             /\ call.op # "get_contacts")
                => EntriesOf(contacts', monica_id) = EntriesOf(contacts, monica_id)]_vars

\* C22 witness: contact 1 was fetched by get_contact, another contact was
\* created, and the get_contact(1) called then returned the cached contact
\* without a request.
C22_Witness ==
    /\ calls = 3
    /\ api_requests = 2
    /\ created_contacts # {}
    /\ updated_contacts = {}
    /\ deleted_contacts = {}
    /\ ~is_data_already_fetched
    /\ result.kind = "return"
    /\ result.of = "get_contact"
    /\ response = NoResponse
    /\ result.value[1].id = 1
    /\ result.value = EntriesOf(contacts, 1)


\* ---------------------------------------------------------------------------
\* C23: the lookup tables are fetched at most once per session, whatever the
\* first successful response held. For the call that follows: when the last
\* call was a get_gender_mapping that returned, a get_gender_mapping called
\* now does not enter the request loop and returns the same mapping with no
\* request sent; when the last call was a get_contact_field_id whose fetch of
\* the field types was answered with success, a get_contact_field_id called
\* now does not enter the request loop, sends no request and reads the same
\* mapping.
C23_LookupsFetchedOnce ==
    [][/\ (call.op = "idle" /\ result.kind = "return"
              /\ result.of = "get_gender_mapping")
              => /\ call'.op # "get_gender_mapping"
                 /\ (calls' # calls /\ result'.of = "get_gender_mapping")
                        => /\ result'.kind = "return"
                           /\ result'.value = result.value
                           /\ response' = NoResponse
                           /\ api_requests' = api_requests
       /\ (call.op = "idle" /\ result.of = "get_contact_field_id"
              /\ response.kind = "ok")
              => /\ call'.op # "get_contact_field_id"
                 /\ (calls' # calls /\ result'.of = "get_contact_field_id")
                        => /\ response' = NoResponse
                           /\ api_requests' = api_requests
                           /\ contact_field_type_mapping'
                                  = contact_field_type_mapping]_vars

====
